---- MODULE Spec2Model ----
(***************************************************************************)
(* Model of the two journal tools of perforce-utils:                       *)
(*   p4_find_missing_files  (src/unnamed/part_000)                         *)
(*   p4_storage_to_csv      (src/p4_storage_to_csv/p4_storage_to_csv.go)   *)
(*                                                                         *)
(* A Go string is modelled as a sequence of one-character strings, so that *)
(* strings.Split, strings.Join, strings.Trim, strings.ToLower, slicing and *)
(* the strconv parsers are computed character by character.                *)
(***************************************************************************)
EXTENDS Integers, Sequences, FiniteSets, TLC

\* ------------------------------------------------------------------------
\* Bounds of the model
\* ------------------------------------------------------------------------

\* Number of journal lines one run reads before the scanner reports end of input.
MaxLines == 2

\* Number of lines of a generated RCS container.
MaxContainerLines == 5

\* Number of words (separated by single spaces) of a generated filename.
MaxNameWords == 3

\* ------------------------------------------------------------------------
\* Go standard library: strings
\* ------------------------------------------------------------------------

RECURSIVE SplitAcc(_, _, _, _, _)
SplitAcc(s, sep, i, cur, acc) ==
    IF i > Len(s) THEN Append(acc, cur)
    ELSE IF s[i] = sep THEN SplitAcc(s, sep, i + 1, <<>>, Append(acc, cur))
    ELSE SplitAcc(s, sep, i + 1, Append(cur, s[i]), acc)

\* strings.Split(s, sep) for a one-character separator: an empty s gives one
\* empty part, and adjacent separators give empty parts.
Split(s, sep) == SplitAcc(s, sep, 1, <<>>, <<>>)

RECURSIVE Join(_, _)
\* strings.Join(parts, sep)
Join(parts, sep) ==
    IF Len(parts) = 0 THEN <<>>
    ELSE IF Len(parts) = 1 THEN parts[1]
    ELSE parts[1] \o sep \o Join(Tail(parts), sep)

RECURSIVE TrimLeft(_, _)
TrimLeft(s, c) ==
    IF Len(s) > 0 /\ s[1] = c THEN TrimLeft(Tail(s), c) ELSE s

RECURSIVE TrimRight(_, _)
TrimRight(s, c) ==
    IF Len(s) > 0 /\ s[Len(s)] = c THEN TrimRight(SubSeq(s, 1, Len(s) - 1), c) ELSE s

\* strings.Trim(s, cutset) for a one-character cutset: every leading and
\* trailing occurrence of the character is removed.
Trim(s, c) == TrimRight(TrimLeft(s, c), c)

\* strings.HasPrefix(s, prefix)
HasPrefix(s, prefix) ==
    Len(s) >= Len(prefix) /\ SubSeq(s, 1, Len(prefix)) = prefix

\* strings.HasSuffix(s, suffix)
HasSuffix(s, suffix) ==
    Len(s) >= Len(suffix) /\ SubSeq(s, Len(s) - Len(suffix) + 1, Len(s)) = suffix

UpperLetters ==
    << "A", "B", "C", "D", "E", "F", "G", "H", "I", "J", "K", "L", "M",
       "N", "O", "P", "Q", "R", "S", "T", "U", "V", "W", "X", "Y", "Z" >>

LowerLetters ==
    << "a", "b", "c", "d", "e", "f", "g", "h", "i", "j", "k", "l", "m",
       "n", "o", "p", "q", "r", "s", "t", "u", "v", "w", "x", "y", "z" >>

\* The lower-case letter of every upper-case letter.
LowerOf ==
    [c \in { UpperLetters[i] : i \in DOMAIN UpperLetters } |->
        LowerLetters[CHOOSE i \in DOMAIN UpperLetters : UpperLetters[i] = c]]

ToLowerChar(c) == IF c \in DOMAIN LowerOf THEN LowerOf[c] ELSE c

\* strings.ToLower(s)
ToLower(s) == [i \in 1..Len(s) |-> ToLowerChar(s[i])]

\* Index of the first occurrence of old in s, 0 when there is none.
IndexOf(s, old) ==
    IF \E i \in 1..(Len(s) - Len(old) + 1) : SubSeq(s, i, i + Len(old) - 1) = old
    THEN CHOOSE i \in 1..(Len(s) - Len(old) + 1) :
            /\ SubSeq(s, i, i + Len(old) - 1) = old
            /\ \A j \in 1..(i - 1) : SubSeq(s, j, j + Len(old) - 1) # old
    ELSE 0

\* strings.Replace(s, old, "", 1): the first occurrence of old is removed.
\* (An empty old matches at the start and removes nothing.)
ReplaceFirstWithEmpty(s, old) ==
    IF Len(old) = 0 \/ IndexOf(s, old) = 0 THEN s
    ELSE SubSeq(s, 1, IndexOf(s, old) - 1)
            \o SubSeq(s, IndexOf(s, old) + Len(old), Len(s))

\* strings.ReplaceAll(s, a, b) for one-character a and b.
ReplaceAllChar(s, a, b) == [i \in 1..Len(s) |-> IF s[i] = a THEN b ELSE s[i]]

\* ------------------------------------------------------------------------
\* Go standard library: strconv
\* ------------------------------------------------------------------------

Digits == << "0", "1", "2", "3", "4", "5", "6", "7", "8", "9" >>

IsDigit(c) == \E i \in DOMAIN Digits : Digits[i] = c

DigitVal(c) == (CHOOSE i \in DOMAIN Digits : Digits[i] = c) - 1

RECURSIVE DecimalVal(_)
DecimalVal(s) ==
    IF Len(s) = 0 THEN 0
    ELSE DecimalVal(SubSeq(s, 1, Len(s) - 1)) * 10 + DigitVal(s[Len(s)])

AllDigits(s) == Len(s) > 0 /\ \A i \in 1..Len(s) : IsDigit(s[i])

\* strconv.ParseUint(s, 10, 64): digits only, no sign.  ok = (err == nil).
ParseUint(s) ==
    IF AllDigits(s) THEN [ok |-> TRUE, val |-> DecimalVal(s)]
    ELSE [ok |-> FALSE, val |-> 0]

\* strconv.Atoi(s) and strconv.ParseInt(s, 10, 64): an optional sign, then digits.
Atoi(s) ==
    IF Len(s) > 0 /\ s[1] \in {"+", "-"}
    THEN IF AllDigits(Tail(s))
         THEN [ok |-> TRUE,
               val |-> IF s[1] = "-" THEN 0 - DecimalVal(Tail(s)) ELSE DecimalVal(Tail(s))]
         ELSE [ok |-> FALSE, val |-> 0]
    ELSE ParseUint(s)

ParseInt(s) == Atoi(s)

HexDigits ==
    << "0", "1", "2", "3", "4", "5", "6", "7", "8", "9", "a", "b", "c", "d", "e", "f" >>

RECURSIVE FormatNat(_, _)
FormatNat(n, base) ==
    IF n < base THEN << HexDigits[n + 1] >>
    ELSE Append(FormatNat(n \div base, base), HexDigits[(n % base) + 1])

\* strconv.FormatInt(n, base) / strconv.FormatUint(n, base)
FormatInt(n, base) ==
    IF n < 0 THEN << "-" >> \o FormatNat(0 - n, base) ELSE FormatNat(n, base)

RECURSIVE BitAnd(_, _)
\* x & mask for a non-negative mask; a negative x is read in two's complement,
\* as Go does for int.
BitAnd(x, mask) ==
    IF mask = 0 THEN 0
    ELSE ((x % 2) * (mask % 2)) + 2 * BitAnd((x - (x % 2)) \div 2, mask \div 2)

\* ------------------------------------------------------------------------
\* Go standard library: path/filepath (Unix build: Separator is "/")
\* ------------------------------------------------------------------------

Separator == "/"

RECURSIVE CleanStack(_, _, _)
\* The components filepath.Clean keeps: empty and "." components go, ".."
\* removes the component before it (and is dropped at the root of a rooted path).
CleanStack(comps, rooted, stack) ==
    IF Len(comps) = 0 THEN stack
    ELSE LET c == Head(comps) IN
         IF c = <<>> \/ c = << "." >> THEN CleanStack(Tail(comps), rooted, stack)
         ELSE IF c = << ".", "." >>
              THEN IF Len(stack) > 0 /\ stack[Len(stack)] # << ".", "." >>
                   THEN CleanStack(Tail(comps), rooted, SubSeq(stack, 1, Len(stack) - 1))
                   ELSE IF rooted THEN CleanStack(Tail(comps), rooted, stack)
                   ELSE CleanStack(Tail(comps), rooted, Append(stack, c))
              ELSE CleanStack(Tail(comps), rooted, Append(stack, c))

\* filepath.Clean(p)
Clean(p) ==
    LET rooted == Len(p) > 0 /\ p[1] = Separator
        kept   == Join(CleanStack(Split(p, Separator), rooted, <<>>), << Separator >>)
    IN  IF rooted THEN << Separator >> \o kept
        ELSE IF kept = <<>> THEN << "." >> ELSE kept

\* filepath.Join(a, b): the non-empty elements joined by Separator, then Clean.
FilepathJoin(a, b) ==
    IF a = <<>> /\ b = <<>> THEN <<>>
    ELSE IF a = <<>> THEN Clean(b)
    ELSE IF b = <<>> THEN Clean(a)
    ELSE Clean(a \o << Separator >> \o b)

\* ------------------------------------------------------------------------
\* Program constants
\* ------------------------------------------------------------------------

\* const DbStorageJournalFieldCount
DbStorageJournalFieldCount == 12

\* const DbStorageField*: the offsets of the fixed fields when the filename
\* takes no token, and the offset of the first filename token.
DbStorageFieldRev == 3
DbStorageFieldType == 4
DbStorageFieldRefCount == 5
DbStorageFieldDigest == 6
DbStorageFieldSize == 7
DbStorageFieldServerSize == 8
DbStorageFieldCompCksum == 9
DbStorageFieldDate == 10
DbStorageFieldFileMarker == 3

\* The literal 0xF in fileType & 0xF, FileTypeBitMaskServerStorageType in the CSV tool.
FileTypeBitMaskServerStorageType == 15
FileTypeBitMaskServerStorageTypeModifier == 240
FileTypeBitMaskRevisionsNumber == 3840
FileTypeBitMaskClientStorageType == 17629184
FileTypeBitMaskClientStorageTypeModifier == 7471104

RCSStorageType == 0

\* len(circularBuffer)
CircularBufferLen == 4

PvMarker == << "@", "p", "v", "@" >>
StorageTableMarker == << "@", "d", "b", ".", "s", "t", "o", "r", "a", "g", "e", "@" >>
RCSSuffix == << ",", "v" >>
GzSuffix == << ".", "g", "z" >>
RCSRevisionDir == << ",", "v", "/" >>
BinaryRevisionDir == << ",", "d", "/" >>

\* var sentinelBuffer = [...]string{"text", "@@", "log"}
sentinelBuffer == << << "t", "e", "x", "t" >>, << "@", "@" >>, << "l", "o", "g" >> >>

\* ------------------------------------------------------------------------
\* The versioned-file index (filemap)
\* ------------------------------------------------------------------------

\* Variant of RegisteredKey: the value is stored as it is spelled.
RegisteredKey_Raw(value, cs) == value

\* The key registerExistingPath stores for value.
RegisteredKey(value, cs) == IF cs THEN value ELSE ToLower(value)

\* registerExistingPath(filemap, value, caseSensitive): the map after the call.
registerExistingPath(fm, value, cs) == fm \cup { RegisteredKey(value, cs) }

\* pathExistsOnDisk(filemap, value, caseSensitive)
pathExistsOnDisk(fm, value, cs) ==
    IF cs THEN value \in fm ELSE ToLower(value) \in fm

\* ------------------------------------------------------------------------
\* readVersionsFromRCS
\* ------------------------------------------------------------------------

\* Go arrays are indexed from 0; the circular buffer is a function on 0..3.
EmptyCircularBuffer == [i \in 0..(CircularBufferLen - 1) |-> <<>>]

\* Variant of PrevIndex: the index stops at slot 0 instead of wrapping to the last slot.
PrevIndex_NoWrap(i) == IF i - 1 < 0 THEN 0 ELSE i - 1

\* testIndex-- followed by the wrap-around test.
PrevIndex(i) == IF i - 1 < 0 THEN CircularBufferLen - 1 ELSE i - 1

RECURSIVE SentinelScan(_, _, _)
\* The inner for loop: the pair <<scanIndex, testIndex>> it ends with.
SentinelScan(buf, testIndex, scanIndex) ==
    IF scanIndex < Len(sentinelBuffer) /\ buf[testIndex] = sentinelBuffer[scanIndex + 1]
    THEN SentinelScan(buf, PrevIndex(testIndex), scanIndex + 1)
    ELSE << scanIndex, testIndex >>

RECURSIVE RCSRevisions(_, _, _, _, _)
\* The scanner loop of readVersionsFromRCS over the lines of one container:
\* the sequence of values handed to registerExistingPath, in order.
RCSRevisions(lines, i, buf, pos, normalizedPath) ==
    IF i > Len(lines) THEN <<>>
    ELSE LET ln     == lines[i]
             buf2   == [buf EXCEPT ![pos] = ln]
             pos2   == (pos + 1) % CircularBufferLen
             end    == SentinelScan(buf2, PrevIndex(pos2), 0)
             found  == ln = sentinelBuffer[1] /\ end[1] = Len(sentinelBuffer)
             rest   == RCSRevisions(lines, i + 1, buf2, pos2, normalizedPath)
         IN  IF found
             THEN << normalizedPath \o << "/" >> \o buf2[end[2]] >> \o rest
             ELSE rest

\* The values readVersionsFromRCS registers for an opened container.
readVersionsFromRCS(lines, normalizedPath) ==
    RCSRevisions(lines, 1, EmptyCircularBuffer, 0, normalizedPath)

RECURSIVE RegisterAll(_, _, _)
RegisterAll(fm, values, cs) ==
    IF Len(values) = 0 THEN fm
    ELSE RegisterAll(registerExistingPath(fm, Head(values), cs), Tail(values), cs)

\* ------------------------------------------------------------------------
\* listVersionedFiles
\* ------------------------------------------------------------------------

\* rootPath of listVersionedFiles
RootPath(depot, flt) ==
    IF Len(flt) > 0
    THEN FilepathJoin(depot, ReplaceAllChar(Trim(flt, "/"), "/", Separator))
    ELSE depot

\* normalizedPath of the walk callback
NormalizedPath(osPathname, depot) ==
    << "/", "/" >> \o
        Trim(ReplaceAllChar(ReplaceFirstWithEmpty(osPathname, depot), "\\", "/"), "/")

\* godirwalk.Walk(rootPath, ...) visits rootPath (cleaned) and everything below it.
UnderRoot(path, root) ==
    \/ path = root
    \/ HasPrefix(path, IF root = << Separator >> THEN root ELSE root \o << Separator >>)

WalkEntries(dsk, root) == { e \in dsk : UnderRoot(e.path, Clean(root)) }

\* godirwalk.Walk fails before any callback when it cannot stat rootPath.
RootWalkable(dsk, root) == \E e \in dsk : e.path = Clean(root)

\* ------------------------------------------------------------------------
\* Inputs: the depot tree on disk
\* ------------------------------------------------------------------------

\* One filesystem entry as the walker reports it: its full path, whether it is
\* a directory, whether os.OpenFile succeeds on it, and its lines.
Dir(p) == [path |-> p, isDir |-> TRUE, openable |-> TRUE, content |-> <<>>]

File(p) == [path |-> p, isDir |-> FALSE, openable |-> TRUE, content |-> <<>>]

Container(p, ok, lines) == [path |-> p, isDir |-> FALSE, openable |-> ok, content |-> lines]

\* The depot root given on the command line (flag.Arg(1)).
DepotRoot == << "/", "r" >>

\* An RCS container with two revision blocks, 1.2 and 1.1.
ContainerLines ==
    << << "h", "e", "a", "d", " ", "1", ".", "2", ";" >>,
       << "1", ".", "2" >>,
       << "l", "o", "g" >>,
       << "@", "@" >>,
       << "t", "e", "x", "t" >>,
       << "@", "x", "@" >>,
       <<>>,
       << "1", ".", "1" >>,
       << "l", "o", "g" >>,
       << "@", "@" >>,
       << "t", "e", "x", "t" >>,
       << "@", "y", "@" >> >>

\* Entries of the tree below the depot root, apart from the container h,v.
PlainEntries ==
    { Dir(DepotRoot),
      Dir(DepotRoot \o << "/", "d" >>),
      Dir(DepotRoot \o << "/", "d", "/", "p" >>),
      Dir(DepotRoot \o << "/", "d", "/", "p", "/", "f", ",", "d" >>),
      File(DepotRoot \o << "/", "d", "/", "p", "/", "f", ",", "d", "/", "1" >>),
      Dir(DepotRoot \o << "/", "d", "/", "p", "/", "g", ",", "d" >>),
      File(DepotRoot \o << "/", "d", "/", "p", "/", "g", ",", "d", "/", "2", ".", "g", "z" >>),
      Dir(DepotRoot \o << "/", "d", "/", "p", "/", "K", ",", "d" >>),
      File(DepotRoot \o << "/", "d", "/", "p", "/", "K", ",", "d", "/", "1" >>),
      Dir(DepotRoot \o << "/", "d", "/", "p", "2" >>),
      Dir(DepotRoot \o << "/", "d", "/", "p", "2", "/", "f", ",", "d" >>),
      File(DepotRoot \o << "/", "d", "/", "p", "2", "/", "f", ",", "d", "/", "1" >>) }

ContainerPath == DepotRoot \o << "/", "d", "/", "p", "/", "h", ",", "v" >>

\* The tree with a readable container, and the same tree with the container unreadable.
DiskReadable == PlainEntries \cup { Container(ContainerPath, TRUE, ContainerLines) }

DiskUnreadable == PlainEntries \cup { Container(ContainerPath, FALSE, ContainerLines) }

\* A tree holding the one versioned file //depot/a file.txt,d/1.
DiskOneFile ==
    { Dir(DepotRoot),
      Dir(DepotRoot \o << "/", "d", "e", "p", "o", "t" >>),
      Dir(DepotRoot \o << "/", "d", "e", "p", "o", "t", "/", "a", " ", "f", "i", "l", "e", ".", "t", "x", "t", ",", "d" >>),
      File(DepotRoot \o << "/", "d", "e", "p", "o", "t", "/", "a", " ", "f", "i", "l", "e", ".", "t", "x", "t", ",", "d", "/", "1" >>) }

\* The depot root does not exist.
DiskNone == {}

Disks == { DiskReadable, DiskUnreadable, DiskOneFile, DiskNone }

\* Values of the -filter flag: none, an existing depot directory, a missing one.
FilterNone == <<>>

FilterP == << "/", "/", "d", "/", "p" >>

FilterQ == << "/", "/", "d", "/", "q" >>

Filters == { FilterNone, FilterP, FilterQ }

\* ------------------------------------------------------------------------
\* Inputs: journal lines
\* ------------------------------------------------------------------------

StorageHead == << "@", "p", "v", "@", " ", "3", " ", "@", "d", "b", ".", "s", "t", "o", "r", "a", "g", "e", "@", " " >>

\* ref count, digest, size, server size, compressed checksum, date, and the
\* space that ends a journal line.
TailFields == << " ", "1", " ", "A", " ", "1", " ", "1", " ", "X", " ", "5", " " >>

\* Depot paths of the records.
NameAFile == << "/", "/", "d", "e", "p", "o", "t", "/", "a", " ", "f", "i", "l", "e", ".", "t", "x", "t" >>

NameF == << "/", "/", "d", "/", "p", "/", "f" >>

NameG == << "/", "/", "d", "/", "p", "/", "g" >>

NameH == << "/", "/", "d", "/", "p", "/", "h" >>

NameM == << "/", "/", "d", "/", "p", "/", "m" >>

NameP2F == << "/", "/", "d", "/", "p", "2", "/", "f" >>

NameUpperF == << "/", "/", "D", "/", "P", "/", "F" >>

NameK == << "/", "/", "d", "/", "p", "/", "k" >>

NameAB == << "/", "/", "d", "/", "p", "/", "a", " ", "b" >>

NameABCD == << "/", "/", "d", "/", "p", "/", "a", " ", "b", " ", "c", " ", "d" >>

\* A filename field that is no depot path: it does not begin with //.
NameBare == << "d", "/", "p", "/", "f" >>

\* A db.storage line: the head, the filename between @ delimiters, the rest.
StorageLine(name, rest) == StorageHead \o << "@" >> \o name \o << "@" >> \o rest

\* The line of the end-to-end scenario: one space in the filename, 13 tokens,
\* no trailing space.
LineC1 ==
    StorageLine(NameAFile,
        << " ", "#", "1", " ", "0", " ", "1", " ", "A", "B", "C", "1", "2", "3", " ", "1", "0", "0",
           " ", "1", "0", "0", " ", "X", "Y", "Z", " ", "1", "6", "1", "0", "0", "0", "0", "0", "0", "0" >>)

\* Binary file //d/p/f revision 1.
LineF == StorageLine(NameF, << " ", "@", "1", "@", " ", "1" >> \o TailFields)

\* Compressed file //d/p/g revision 2.
LineG == StorageLine(NameG, << " ", "@", "2", "@", " ", "3" >> \o TailFields)

\* RCS file //d/p/h revision 1.1.
LineH == StorageLine(NameH, << " ", "@", "1", ".", "1", "@", " ", "0" >> \o TailFields)

\* A file that is not on disk.
LineM == StorageLine(NameM, << " ", "@", "1", "@", " ", "1" >> \o TailFields)

\* A file in the sibling directory //d/p2.
LineP2 == StorageLine(NameP2F, << " ", "@", "1", "@", " ", "1" >> \o TailFields)

\* //d/p/f spelled in upper case.
LineUpper == StorageLine(NameUpperF, << " ", "@", "1", "@", " ", "1" >> \o TailFields)

\* //d/p/K revision 1, spelled in lower case.
LineK == StorageLine(NameK, << " ", "@", "1", "@", " ", "1" >> \o TailFields)

\* A revision token with a leading delimiter only.
LineHashRev == StorageLine(NameF, << " ", "#", "1", " ", "1" >> \o TailFields)

\* One space in the filename; file type 0x10 (RCS with a modifier), ref count 26.
LineSpace ==
    StorageLine(NameAB,
        << " ", "@", "1", "@", " ", "1", "6", " ", "2", "6",
           " ", "A", " ", "1", " ", "1", " ", "X", " ", "5", " " >>)

\* Three spaces in the filename.
LineThreeSpacesT == StorageLine(NameABCD, << " ", "@", "1", "@", " ", "1" >> \o TailFields)

\* Exactly 12 tokens: no space in the filename, no trailing space.
LineTwelve ==
    StorageLine(NameF,
        << " ", "@", "1", "@", " ", "1", " ", "1", " ",
           "A", " ", "1", " ", "1", " ", "X", " ", "5" >>)

\* Three spaces in the filename, no trailing space.
LineThreeSpaces ==
    StorageLine(NameABCD,
        << " ", "@", "1", "@", " ", "1", " ", "1", " ",
           "A", " ", "1", " ", "1", " ", "X", " ", "5" >>)

\* A truncated db.storage line: 7 tokens.
LineShort == StorageLine(NameF, << " ", "@", "1", "@", " ", "1", " " >>)

\* File type is not a number.
LineBadType == StorageLine(NameF, << " ", "@", "1", "@", " ", "x" >> \o TailFields)

\* File type carries a sign.
LineNegType == StorageLine(NameF, << " ", "@", "1", "@", " ", "-", "1" >> \o TailFields)

\* Ref count is not a number.
LineBadRef ==
    StorageLine(NameF,
        << " ", "@", "1", "@", " ", "1", " ", "x", " ",
           "A", " ", "1", " ", "1", " ", "X", " ", "5", " " >>)

\* Size is not a number.
LineBadSize ==
    StorageLine(NameF,
        << " ", "@", "1", "@", " ", "1", " ", "1", " ",
           "A", " ", "x", " ", "1", " ", "X", " ", "5", " " >>)

\* Server size is not a number.
LineBadServerSize ==
    StorageLine(NameF,
        << " ", "@", "1", "@", " ", "1", " ", "1", " ",
           "A", " ", "1", " ", "x", " ", "X", " ", "5", " " >>)

\* Date is not a number.
LineBadDate ==
    StorageLine(NameF,
        << " ", "@", "1", "@", " ", "1", " ", "1", " ",
           "A", " ", "1", " ", "1", " ", "X", " ", "x", " " >>)

\* An empty revision token.
LineEmptyRev == StorageLine(NameF, << " ", " ", "1" >> \o TailFields)

\* A revision token of one character.
LineOneCharRev == StorageLine(NameF, << " ", "#", " ", "1" >> \o TailFields)

\* A record of another table.
LineUser == << "@", "p", "v", "@", " ", "3", " ", "@", "d", "b", ".", "u", "s", "e", "r", "@",
             " ", "@", "u", "@", " ", "@", "u", "@", " ", "1", " " >>

\* A delete-value record of db.storage.
LineDv ==
    << "@", "d", "v", "@", " ", "3", " ", "@", "d", "b", ".", "s", "t", "o", "r", "a", "g", "e", "@", " " >>
        \o << "@" >> \o NameF \o << "@", " ", "@", "1", "@", " ", "1" >> \o TailFields

\* A well-formed line whose filename field is `@d/p/f@`.
LineBare == StorageLine(NameBare, << " ", "@", "1", "@", " ", "1" >> \o TailFields)

\* Fewer than 4 tokens.
LineFew == << "@", "e", "x", "@", " ", "7", " ", "5" >>

JournalLines ==
    { LineC1, LineF, LineG, LineH, LineM,
      LineP2, LineUpper, LineK, LineHashRev, LineSpace,
      LineThreeSpacesT, LineTwelve, LineThreeSpaces, LineShort, LineBadType,
      LineNegType, LineBadRef, LineBadSize, LineBadServerSize, LineBadDate,
      LineEmptyRev, LineUser, LineDv, LineFew, LineBare,
      LineOneCharRev }

\* ------------------------------------------------------------------------
\* The journal scanner: the loop body the two tools share
\* ------------------------------------------------------------------------

\* Variant of PassesPreFilters: the table marker (third token) is not tested.
PassesPreFilters_AnyTable(parts) ==
    /\ ~(Len(parts) < 4)
    /\ ~(parts[1] # PvMarker)

\* The three structural pre-filters (the `continue`s before any field is read).
PassesPreFilters(parts) ==
    /\ ~(Len(parts) < 4)
    /\ ~(parts[1] # PvMarker)
    /\ ~(parts[3] # StorageTableMarker)

\* filenameExtraPartCount := len(parts) - DbStorageJournalFieldCount
FilenameExtraPartCount(parts) == Len(parts) - DbStorageJournalFieldCount

\* parts[3:3+filenameExtraPartCount] is in range: Go panics when the upper
\* bound of a slice expression is below its lower bound.
FilenameSliceInRange(parts) == 3 <= 3 + FilenameExtraPartCount(parts)

\* Variant of Filename: the slice taken one token longer, parts[3:3+extra+1].
Filename_Inclusive(parts) ==
    Trim(Join(SubSeq(parts, 4, 4 + FilenameExtraPartCount(parts)), << " " >>), "@")

\* Variant of Filename: the @ delimiters are not trimmed.
Filename_Untrimmed(parts) ==
    Join(SubSeq(parts, 4, 3 + FilenameExtraPartCount(parts)), << " " >>)

\* filename: Go's parts[3:3+extra] is the 1-based range 4 .. 3+extra.
Filename(parts) ==
    Trim(Join(SubSeq(parts, 4, 3 + FilenameExtraPartCount(parts)), << " " >>), "@")

\* Variant of Field: the field read at its offset without the extra tokens of
\* the filename.
Field_Nominal(parts, offset) == parts[offset + 1]

\* Variant of Field: every fixed field read one token further right.
Field_ShiftedByOne(parts, offset) == parts[offset + FilenameExtraPartCount(parts) + 2]

\* parts[offset+filenameExtraPartCount] for a Go (0-based) offset.
Field(parts, offset) == parts[offset + FilenameExtraPartCount(parts) + 1]

\* ------------------------------------------------------------------------
\* p4_find_missing_files: processDbStorageEntries
\* ------------------------------------------------------------------------

\* Variant of ServerFileType: the file type compared without the mask.
ServerFileType_NoMask(fileType) == fileType

\* serverFileType := ServerStorageType(fileType & 0xF)
ServerFileType(fileType) == BitAnd(fileType, FileTypeBitMaskServerStorageType)

\* revision[1:len(revision)-1] is in range.
RevisionSliceInRange(revision) == 1 <= Len(revision) - 1

\* revision[1:len(revision)-1]
StripRevision(revision) == SubSeq(revision, 2, Len(revision) - 1)

\* versionedFilePath
VersionedFilePath(filename, revision, serverFileType) ==
    IF serverFileType = RCSStorageType
    THEN filename \o RCSRevisionDir \o StripRevision(revision)
    ELSE filename \o BinaryRevisionDir \o StripRevision(revision)

\* Variant of MissingOnDisk: no second lookup with ".gz" appended.
MissingOnDisk_NoGzFallback(fm, path, cs) == ~pathExistsOnDisk(fm, path, cs)

\* The two lookups: the record is missing when both fail.
MissingOnDisk(fm, path, cs) ==
    /\ ~pathExistsOnDisk(fm, path, cs)
    /\ ~pathExistsOnDisk(fm, path \o GzSuffix, cs)

\* One iteration of the scan loop of p4_find_missing_files on `ln`:
\*   exit     how the iteration ends: "prefilter", "filtered" and "parse" are the
\*            `continue`s, "panic" a run-time panic, "present" and "missing" the
\*            two ways of reaching fileCount++;
\*   path     versionedFilePath (empty when the iteration does not build it).
\* The iteration from the lookup on, for the path it built.
VerifyLookup(path, fm, cs) ==
    IF MissingOnDisk(fm, path, cs) THEN [exit |-> "missing", path |-> path]
    ELSE [exit |-> "present", path |-> path]

\* The iteration from the filter test on, for the fields it read.
VerifyFields(filename, revision, fileType, fm, flt, cs) ==
    IF Len(flt) > 0 /\ ~HasPrefix(filename, flt) THEN [exit |-> "filtered", path |-> <<>>]
    ELSE IF ~fileType.ok THEN [exit |-> "parse", path |-> <<>>]
    ELSE IF ~RevisionSliceInRange(revision) THEN [exit |-> "panic", path |-> <<>>]
    ELSE VerifyLookup(VersionedFilePath(filename, revision, ServerFileType(fileType.val)),
                      fm, cs)

\* The iteration for the tokens of the line.
VerifyParts(parts, fm, flt, cs) ==
    IF ~PassesPreFilters(parts) THEN [exit |-> "prefilter", path |-> <<>>]
    ELSE IF ~FilenameSliceInRange(parts) THEN [exit |-> "panic", path |-> <<>>]
    ELSE VerifyFields(Filename(parts), Field(parts, 3), Atoi(Field(parts, 4)), fm, flt, cs)

VerifyIteration(ln, fm, flt, cs) == VerifyParts(Split(ln, " "), fm, flt, cs)

\* Variant of ReachesFileCount: the increment sits in the branch of a record
\* that was found, a missing record is not counted as processed.
ReachesFileCount_PresentOnly(exit) == exit = "present"

\* The iteration reaches fileCount++ at the end of the loop body: it was ended
\* by no `continue` and no panic, whether the record was found or not.
ReachesFileCount(exit) == exit \in { "present", "missing" }

\* ------------------------------------------------------------------------
\* p4_storage_to_csv: processDbStorageEntries
\* ------------------------------------------------------------------------

\* The header row csvWriter.Write receives before the scan.
CsvHeaderRow ==
    << << "L", "i", "b", "r", "a", "r", "i", "a", "n", "F", "i", "l", "e" >>,
       << "L", "i", "b", "r", "a", "r", "i", "a", "n", "R", "e", "v", "i", "s", "i", "o", "n" >>,
       << "F", "i", "l", "e", "T", "y", "p", "e" >>,
       << "S", "e", "r", "v", "e", "r", "F", "i", "l", "e", "T", "y", "p", "e" >>,
       << "S", "e", "r", "v", "e", "r", "F", "i", "l", "e", "T", "y", "p", "e", "M", "o", "d", "i", "f", "i", "e", "r" >>,
       << "R", "e", "v", "i", "s", "i", "o", "n", "s", "N", "u", "m", "b", "e", "r" >>,
       << "C", "l", "i", "e", "n", "t", "F", "i", "l", "e", "T", "y", "p", "e" >>,
       << "S", "e", "r", "v", "e", "r", "F", "i", "l", "e", "M", "o", "d", "i", "f", "i", "e", "r" >>,
       << "R", "e", "f", "e", "r", "e", "n", "c", "e", "C", "o", "u", "n", "t" >>,
       << "M", "D", "5", "O", "f", "L", "i", "b", "r", "a", "r", "i", "a", "n", "F", "i", "l", "e" >>,
       << "F", "i", "l", "e", "S", "i", "z", "e" >>,
       << "F", "i", "l", "e", "S", "i", "z", "e", "O", "n", "S", "e", "r", "v", "e", "r" >>,
       << "D", "i", "g", "e", "s", "t", "O", "f", "C", "o", "m", "p", "r", "e", "s", "s", "e", "d", "F", "i", "l", "e" >>,
       << "L", "a", "s", "t", "U", "p", "d", "a", "t", "e", "D", "a", "t", "e" >> >>

\* Variant of DecodeFileType: the client type modifier is read with bit 0x10000
\* added to its mask, a bit of the client type.
DecodeFileType_OverlappingModifier(fileType) ==
    [ serverFileType         |-> BitAnd(fileType, FileTypeBitMaskServerStorageType),
      serverFileTypeModifier |-> BitAnd(fileType, FileTypeBitMaskServerStorageTypeModifier),
      revisionsNumber        |-> BitAnd(fileType, FileTypeBitMaskRevisionsNumber),
      clientFileType         |-> BitAnd(fileType, FileTypeBitMaskClientStorageType),
      clientFileTypeModifier |-> BitAnd(fileType, FileTypeBitMaskClientStorageTypeModifier + 65536) ]

\* Variant of DecodeFileType: the client type is read with bit 0x20000 added
\* to its mask, a bit of the client type modifier.
DecodeFileType_SharedBit(fileType) ==
    [ serverFileType         |-> BitAnd(fileType, FileTypeBitMaskServerStorageType),
      serverFileTypeModifier |-> BitAnd(fileType, FileTypeBitMaskServerStorageTypeModifier),
      revisionsNumber        |-> BitAnd(fileType, FileTypeBitMaskRevisionsNumber),
      clientFileType         |-> BitAnd(fileType, FileTypeBitMaskClientStorageType + 131072),
      clientFileTypeModifier |-> BitAnd(fileType, FileTypeBitMaskClientStorageTypeModifier) ]

\* The five sub-fields of the file type: fileType & mask for each of the masks.
DecodeFileType(fileType) ==
    [ serverFileType         |-> BitAnd(fileType, FileTypeBitMaskServerStorageType),
      serverFileTypeModifier |-> BitAnd(fileType, FileTypeBitMaskServerStorageTypeModifier),
      revisionsNumber        |-> BitAnd(fileType, FileTypeBitMaskRevisionsNumber),
      clientFileType         |-> BitAnd(fileType, FileTypeBitMaskClientStorageType),
      clientFileTypeModifier |-> BitAnd(fileType, FileTypeBitMaskClientStorageTypeModifier) ]

\* The 14 fields csvWriter.Write receives for one record.
CsvRow(filename, revision, fileType, refCount, digest, size, serverSize, compCksum, date) ==
    << filename,
       revision,
       FormatInt(fileType, 16),
       FormatInt(DecodeFileType(fileType).serverFileType, 16),
       FormatInt(DecodeFileType(fileType).serverFileTypeModifier, 16),
       FormatInt(DecodeFileType(fileType).revisionsNumber, 16),
       FormatInt(DecodeFileType(fileType).clientFileType, 16),
       FormatInt(DecodeFileType(fileType).clientFileTypeModifier, 16),
       FormatInt(refCount, 16),
       digest,
       FormatInt(size, 10),
       FormatInt(serverSize, 10),
       compCksum,
       FormatInt(date, 10) >>

\* One iteration of the scan loop of p4_storage_to_csv on `ln`:
\*   exit   "prefilter" and "parse" are the `continue`s, "panic" a run-time
\*          panic, "row" reaches csvWriter.Write and fileCount++;
\*   row    the fields written (empty when no row is written).
\* Variant of ExportFields: the error of the date conversion is not tested.
ExportFields_DateUnchecked(filename, revision, fileType, refCount, digest, size, serverSize, compCksum, date) ==
    IF ~fileType.ok \/ ~refCount.ok \/ ~size.ok \/ ~serverSize.ok
    THEN [exit |-> "parse", row |-> <<>>]
    ELSE [exit |-> "row",
          row  |-> CsvRow(filename, revision, fileType.val, refCount.val, digest,
                          size.val, serverSize.val, compCksum, date.val)]

\* Variant of ExportFields: a file type whose server storage type is none of
\* the named ones (0 to 8) is treated as a conversion error.
ExportFields_NamedTypesOnly(filename, revision, fileType, refCount, digest, size, serverSize, compCksum, date) ==
    IF ~fileType.ok \/ ~refCount.ok \/ ~size.ok \/ ~serverSize.ok \/ ~date.ok
            \/ BitAnd(fileType.val, FileTypeBitMaskServerStorageType) > 8
    THEN [exit |-> "parse", row |-> <<>>]
    ELSE [exit |-> "row",
          row  |-> CsvRow(filename, revision, fileType.val, refCount.val, digest,
                          size.val, serverSize.val, compCksum, date.val)]

\* The iteration from the conversions on, for the fields it read.
ExportFields(filename, revision, fileType, refCount, digest, size, serverSize, compCksum, date) ==
    IF ~fileType.ok \/ ~refCount.ok \/ ~size.ok \/ ~serverSize.ok \/ ~date.ok
    THEN [exit |-> "parse", row |-> <<>>]
    ELSE [exit |-> "row",
          row  |-> CsvRow(filename, revision, fileType.val, refCount.val, digest,
                          size.val, serverSize.val, compCksum, date.val)]

\* The iteration for the tokens of the line.
ExportParts(parts) ==
    IF ~PassesPreFilters(parts) THEN [exit |-> "prefilter", row |-> <<>>]
    ELSE IF ~FilenameSliceInRange(parts) THEN [exit |-> "panic", row |-> <<>>]
    ELSE ExportFields(Filename(parts),
                      Field(parts, DbStorageFieldRev),
                      ParseUint(Field(parts, DbStorageFieldType)),
                      Atoi(Field(parts, DbStorageFieldRefCount)),
                      Field(parts, DbStorageFieldDigest),
                      ParseInt(Field(parts, DbStorageFieldSize)),
                      ParseInt(Field(parts, DbStorageFieldServerSize)),
                      Field(parts, DbStorageFieldCompCksum),
                      Atoi(Field(parts, DbStorageFieldDate)))

ExportIteration(ln) == ExportParts(Split(ln, " "))

\* ------------------------------------------------------------------------
\* State
\* ------------------------------------------------------------------------

VARIABLES
    tool,               \* which binary runs: "find_missing" or "storage_to_csv"
    depotPath,          \* flag.Arg(1)
    filter,             \* flags.filter
    caseSensitive,      \* flags.caseSensitive
    disk,               \* the filesystem entries below the depot root
    journal,            \* the lines the journal file (flag.Arg(0)) is made of
    pc,                 \* where main is
    pending,            \* entries the walker has still to hand to the callback
    walkErr,            \* the error listVersionedFiles returned (TRUE: non-nil)
    filemap,            \* the index
    registered,         \* every value handed to registerExistingPath so far
    openContainers,     \* the RCS containers whose file handle is open
    journalOpen,        \* the journal file handle is open
    linesRead,          \* lines the scanner has returned so far
    line,               \* the line of the current iteration
    lineExit,           \* how the current iteration ended
    versionedFilePath,  \* versionedFilePath of the current iteration
    fileCount,          \* fileCount
    missingCount,       \* missingCount
    csvHeader,          \* the CSV header row has been written
    rows,               \* the CSV data rows handed to csvWriter.Write so far
    stdout,             \* the rows that reached os.Stdout (csvWriter is buffered)
    summary,            \* the closing "Processed ..." log lines were written
    exitStatus          \* the process exit status, -1 while it runs

vars ==
    << tool, depotPath, filter, caseSensitive, disk, journal, pc, pending, walkErr, filemap,
       registered, openContainers, journalOpen, linesRead, line, lineExit, versionedFilePath,
       fileCount, missingCount, csvHeader, rows, stdout, summary, exitStatus >>

config == << tool, depotPath, filter, caseSensitive, disk, journal >>

walkVars == << pending, walkErr, filemap, registered, openContainers >>

scanVars ==
    << journalOpen, linesRead, line, lineExit, versionedFilePath, fileCount,
       missingCount, csvHeader, rows, stdout, summary, exitStatus >>

Init ==
    /\ tool \in { "find_missing", "storage_to_csv" }
    /\ journal = JournalLines
    /\ IF tool = "find_missing"
       THEN /\ depotPath = DepotRoot
            /\ filter \in Filters
            /\ caseSensitive \in BOOLEAN
            /\ disk \in Disks
            /\ pc = "main"
       ELSE /\ depotPath = <<>>
            /\ filter = <<>>
            /\ caseSensitive = FALSE
            /\ disk = {}
            /\ pc = "open"
    /\ pending = {}
    /\ walkErr = FALSE
    /\ filemap = {}
    /\ registered = {}
    /\ openContainers = {}
    /\ journalOpen = FALSE
    /\ linesRead = 0
    /\ line = <<>>
    /\ lineExit = "none"
    /\ versionedFilePath = <<>>
    /\ fileCount = 0
    /\ missingCount = 0
    /\ csvHeader = FALSE
    /\ rows = <<>>
    /\ stdout = <<>>
    /\ summary = FALSE
    /\ exitStatus = -1

\* ------------------------------------------------------------------------
\* p4_find_missing_files: main and listVersionedFiles
\* ------------------------------------------------------------------------

\* Variant of ExitStatusOf: main returns normally whatever the error.
ExitStatusOf_AlwaysZero(err) == 0

\* main, after processDbStorageEntries returned err (TRUE: non-nil):
\* `if err != nil { os.Exit(1) }`, else main returns and the status is 0.
ExitStatusOf(err) == IF err THEN 1 ELSE 0

\* listVersionedFiles up to the first callback: godirwalk.Walk either fails on
\* rootPath (no callback runs, the error is returned with an empty filemap) or
\* starts handing entries to the callback.
WalkBegin ==
    /\ tool = "find_missing" /\ pc = "main"
    /\ IF RootWalkable(disk, RootPath(depotPath, filter))
       THEN /\ pending' = WalkEntries(disk, RootPath(depotPath, filter))
            /\ walkErr' = FALSE
            /\ pc' = "walk"
       ELSE /\ pending' = {}
            /\ walkErr' = TRUE
            /\ pc' = "walked"
    /\ UNCHANGED << config, filemap, registered, openContainers, scanVars >>

\* The values one callback invocation registers for a non-directory entry.
CallbackValues(e, depot) ==
    IF HasSuffix(NormalizedPath(e.path, depot), RCSSuffix)
    THEN readVersionsFromRCS(e.content, NormalizedPath(e.path, depot))
    ELSE << NormalizedPath(e.path, depot) >>

\* Variant of DeferredClose: the handle stays open when the function is left.
DeferredClose_Kept(handles, h) == handles

\* defer file.Close(): the handles that are open once the function that
\* opened h has been left, by a return or by the unwinding of a panic.
DeferredClose(handles, h) == handles \ { h }

\* The container handles open after one callback on a file: readVersionsFromRCS
\* opens the container (a file named ,v), scans it and returns; any other file
\* is registered without being opened.
HandlesAfterCallback(handles, e, depot) ==
    IF HasSuffix(NormalizedPath(e.path, depot), RCSSuffix)
    THEN DeferredClose(handles \cup { e.path }, e.path)
    ELSE handles

\* The handle of the journal file.
JournalHandle == "journal"

\* Whether the journal handle is open once processDbStorageEntries has been left.
JournalOpenAfterReturn == JournalHandle \in DeferredClose({ JournalHandle }, JournalHandle)

\* The callback returns an error: os.OpenFile failed on an RCS container.
CallbackFails(e, depot) ==
    /\ ~e.isDir
    /\ HasSuffix(NormalizedPath(e.path, depot), RCSSuffix)
    /\ ~e.openable

RECURSIVE SeqToSet(_)
SeqToSet(s) == IF Len(s) = 0 THEN {} ELSE { Head(s) } \cup SeqToSet(Tail(s))

\* d is a directory above e.
Above(d, e) == d.isDir /\ HasPrefix(e.path, d.path \o << Separator >>)

\* The entries godirwalk.Walk may hand to the callback next.  The walk is depth
\* first: a directory is handed over before the entries in it, and everything
\* below a directory that was handed over comes before anything outside it.
\* The order within one directory is not sorted (Unsorted: true).
NextInWalk(all, todo) ==
    { e \in todo :
        \A d \in all :
            /\ Above(d, e) => d \notin todo
            /\ (d.isDir /\ d \notin todo /\ ~Above(d, e))
                    => \A x \in todo : ~Above(d, x) }

\* One invocation of the walk callback.  An error returned by the callback ends
\* the walk: godirwalk's default ErrorCallback halts, and Walk returns the error.
WalkCallback ==
    /\ tool = "find_missing" /\ pc = "walk"
    /\ \E e \in NextInWalk(WalkEntries(disk, RootPath(depotPath, filter)), pending) :
        IF e.isDir
        THEN /\ pending' = pending \ { e }
             /\ UNCHANGED << pc, walkErr, filemap, registered, openContainers >>
        ELSE IF CallbackFails(e, depotPath)
        THEN /\ pending' = {}
             /\ walkErr' = TRUE
             /\ pc' = "walked"
             /\ UNCHANGED << filemap, registered, openContainers >>
        ELSE /\ pending' = pending \ { e }
             /\ filemap' = RegisterAll(filemap, CallbackValues(e, depotPath), caseSensitive)
             /\ registered' = registered \cup SeqToSet(CallbackValues(e, depotPath))
             /\ openContainers' = HandlesAfterCallback(openContainers, e, depotPath)
             /\ UNCHANGED << pc, walkErr >>
    /\ UNCHANGED << config, scanVars >>

\* godirwalk.Walk returns nil after the last entry.
WalkEnd ==
    /\ tool = "find_missing" /\ pc = "walk" /\ pending = {}
    /\ pc' = "walked"
    /\ UNCHANGED << config, walkVars, scanVars >>

\* main: `filemap, _ := listVersionedFiles(...)` drops the error and calls
\* processDbStorageEntries, which opens the journal.  When os.OpenFile fails
\* the function returns the error and main exits with status 1.
VerifyOpen ==
    /\ tool = "find_missing" /\ pc = "walked"
    /\ \E ok \in BOOLEAN :
        IF ok
        THEN /\ journalOpen' = TRUE
             /\ pc' = "scan"
             /\ UNCHANGED exitStatus
        ELSE /\ journalOpen' = FALSE
             /\ pc' = "exit"
             /\ exitStatus' = ExitStatusOf(TRUE)
    /\ UNCHANGED << config, walkVars, linesRead, line, lineExit, versionedFilePath,
                    fileCount, missingCount, csvHeader, rows, stdout, summary >>

\* One iteration of the scan loop.  A run-time panic unwinds the function (the
\* deferred file.Close() runs) and ends the process with status 2.
VerifyLine ==
    /\ tool = "find_missing" /\ pc = "scan" /\ linesRead < MaxLines
    /\ \E ln \in journal :
        \E it \in { VerifyIteration(ln, filemap, filter, caseSensitive) } :
        /\ line' = ln
        /\ linesRead' = linesRead + 1
        /\ lineExit' = it.exit
        /\ versionedFilePath' = it.path
        /\ fileCount' = IF ReachesFileCount(it.exit) THEN fileCount + 1 ELSE fileCount
        /\ missingCount' = IF it.exit = "missing" THEN missingCount + 1 ELSE missingCount
        /\ IF it.exit = "panic"
           THEN /\ pc' = "exit" /\ exitStatus' = 2 /\ journalOpen' = JournalOpenAfterReturn
           ELSE UNCHANGED << pc, exitStatus, journalOpen >>
    /\ UNCHANGED << config, walkVars, csvHeader, rows, stdout, summary >>

\* scanner.Scan() returns false: the two totals are logged, the deferred Close
\* runs, the function returns nil and main returns (status 0).
VerifyEnd ==
    /\ tool = "find_missing" /\ pc = "scan"
    /\ summary' = TRUE
    /\ journalOpen' = JournalOpenAfterReturn
    /\ pc' = "exit"
    /\ exitStatus' = ExitStatusOf(FALSE)
    /\ UNCHANGED << config, walkVars, linesRead, line, lineExit, versionedFilePath,
                    fileCount, missingCount, csvHeader, rows, stdout >>

\* ------------------------------------------------------------------------
\* p4_storage_to_csv: main and processDbStorageEntries
\* ------------------------------------------------------------------------

\* os.OpenFile on the journal, then the header row.
ExportOpen ==
    /\ tool = "storage_to_csv" /\ pc = "open"
    /\ \E ok \in BOOLEAN :
        IF ok
        THEN /\ journalOpen' = TRUE
             /\ csvHeader' = TRUE
             /\ pc' = "scan"
             /\ UNCHANGED exitStatus
        ELSE /\ UNCHANGED << journalOpen, csvHeader >>
             /\ pc' = "exit"
             /\ exitStatus' = ExitStatusOf(TRUE)
    /\ UNCHANGED << config, walkVars, linesRead, line, lineExit, versionedFilePath,
                    fileCount, missingCount, rows, stdout, summary >>

\* One iteration of the scan loop.
ExportLine ==
    /\ tool = "storage_to_csv" /\ pc = "scan" /\ linesRead < MaxLines
    /\ \E ln \in journal :
        \E it \in { ExportIteration(ln) } :
        /\ line' = ln
        /\ linesRead' = linesRead + 1
        /\ lineExit' = it.exit
        /\ rows' = IF it.exit = "row" THEN Append(rows, it.row) ELSE rows
        /\ fileCount' = IF it.exit = "row" THEN fileCount + 1 ELSE fileCount
        /\ IF it.exit = "panic"
           THEN /\ pc' = "exit" /\ exitStatus' = 2 /\ journalOpen' = JournalOpenAfterReturn
           ELSE UNCHANGED << pc, exitStatus, journalOpen >>
    /\ UNCHANGED << config, walkVars, versionedFilePath, missingCount, csvHeader, stdout, summary >>

\* End of input: csvWriter.Flush() hands the buffered header and rows to
\* os.Stdout (csv.Writer buffers in a bufio.Writer, which the few rows of a
\* run never fill), then the "Processed" log, Close, return nil, status 0.
ExportEnd ==
    /\ tool = "storage_to_csv" /\ pc = "scan"
    /\ stdout' = << CsvHeaderRow >> \o rows
    /\ summary' = TRUE
    /\ journalOpen' = JournalOpenAfterReturn
    /\ pc' = "exit"
    /\ exitStatus' = ExitStatusOf(FALSE)
    /\ UNCHANGED << config, walkVars, linesRead, line, lineExit, versionedFilePath,
                    fileCount, missingCount, csvHeader, rows >>

Next ==
    \/ WalkBegin
    \/ WalkCallback
    \/ WalkEnd
    \/ VerifyOpen
    \/ VerifyLine
    \/ VerifyEnd
    \/ ExportOpen
    \/ ExportLine
    \/ ExportEnd

Spec == Init /\ [][Next]_vars

\* ------------------------------------------------------------------------
\* listVersionedFiles on a tree with one generated RCS container
\* ------------------------------------------------------------------------

\* Lines of a generated container: the three sentinel lines and a revision number.
RCSWords ==
    { sentinelBuffer[1], sentinelBuffer[2], sentinelBuffer[3], << "1", ".", "1" >> }

\* Every container of at most MaxContainerLines such lines.
ContainerContents == UNION { [1..n -> RCSWords] : n \in 0..MaxContainerLines }

\* The directories above the container.
ContainerDirs ==
    { Dir(DepotRoot),
      Dir(DepotRoot \o << "/", "d" >>),
      Dir(DepotRoot \o << "/", "d", "/", "p" >>) }

\* A run of p4_find_missing_files, without filter, on a depot that holds the
\* one container //d/p/h,v.
InitRCS ==
    /\ tool = "find_missing"
    /\ depotPath = DepotRoot
    /\ filter = FilterNone
    /\ caseSensitive \in BOOLEAN
    /\ disk \in { ContainerDirs \cup { Container(ContainerPath, TRUE, lines) } :
                    lines \in ContainerContents }
    /\ journal = JournalLines
    /\ pc = "main"
    /\ pending = {}
    /\ walkErr = FALSE
    /\ filemap = {}
    /\ registered = {}
    /\ openContainers = {}
    /\ journalOpen = FALSE
    /\ linesRead = 0
    /\ line = <<>>
    /\ lineExit = "none"
    /\ versionedFilePath = <<>>
    /\ fileCount = 0
    /\ missingCount = 0
    /\ csvHeader = FALSE
    /\ rows = <<>>
    /\ stdout = <<>>
    /\ summary = FALSE
    /\ exitStatus = -1

\* The run up to the return of listVersionedFiles.
NextRCS ==
    \/ WalkBegin
    \/ WalkCallback
    \/ WalkEnd

SpecRCS == InitRCS /\ [][NextRCS]_vars

\* ------------------------------------------------------------------------
\* p4_storage_to_csv on a journal of one record with a generated file type
\* ------------------------------------------------------------------------

RECURSIVE Pow2(_)
Pow2(k) == IF k = 0 THEN 1 ELSE 2 * Pow2(k - 1)

\* The single bits of a mask (the masks end at bit 24).
MaskBits(mask) == { Pow2(k) : k \in { j \in 0..24 : (mask \div Pow2(j)) % 2 = 1 } }

RECURSIVE SumOf(_)
SumOf(S) == IF S = {} THEN 0 ELSE LET x == CHOOSE y \in S : TRUE IN x + SumOf(S \ { x })

\* Every combination of the bits of a mask.
BitCombinations(mask) == { SumOf(B) : B \in SUBSET MaskBits(mask) }

\* No bit and every bit of a mask.
Ends(mask) == { 0, mask }

\* The server storage types the source names: RCSServerStorageType (0) to
\* ExternalServerStorageType (8).
ServerStorageTypes == 0..8

\* Values of the five sub-fields of a file type.  One sub-field takes every
\* value it can hold while each of the others holds no bit or all its bits.
SubFieldChoices ==
    [ serverFileType         : BitCombinations(FileTypeBitMaskServerStorageType),
      serverFileTypeModifier : Ends(FileTypeBitMaskServerStorageTypeModifier),
      revisionsNumber        : Ends(FileTypeBitMaskRevisionsNumber),
      clientFileType         : Ends(FileTypeBitMaskClientStorageType),
      clientFileTypeModifier : Ends(FileTypeBitMaskClientStorageTypeModifier) ]
    \cup
    [ serverFileType         : { 0, 8 },
      serverFileTypeModifier : BitCombinations(FileTypeBitMaskServerStorageTypeModifier),
      revisionsNumber        : Ends(FileTypeBitMaskRevisionsNumber),
      clientFileType         : Ends(FileTypeBitMaskClientStorageType),
      clientFileTypeModifier : Ends(FileTypeBitMaskClientStorageTypeModifier) ]
    \cup
    [ serverFileType         : { 0, 8 },
      serverFileTypeModifier : Ends(FileTypeBitMaskServerStorageTypeModifier),
      revisionsNumber        : BitCombinations(FileTypeBitMaskRevisionsNumber),
      clientFileType         : Ends(FileTypeBitMaskClientStorageType),
      clientFileTypeModifier : Ends(FileTypeBitMaskClientStorageTypeModifier) ]
    \cup
    [ serverFileType         : { 0, 8 },
      serverFileTypeModifier : Ends(FileTypeBitMaskServerStorageTypeModifier),
      revisionsNumber        : Ends(FileTypeBitMaskRevisionsNumber),
      clientFileType         : BitCombinations(FileTypeBitMaskClientStorageType),
      clientFileTypeModifier : Ends(FileTypeBitMaskClientStorageTypeModifier) ]
    \cup
    [ serverFileType         : { 0, 8 },
      serverFileTypeModifier : Ends(FileTypeBitMaskServerStorageTypeModifier),
      revisionsNumber        : Ends(FileTypeBitMaskRevisionsNumber),
      clientFileType         : Ends(FileTypeBitMaskClientStorageType),
      clientFileTypeModifier : BitCombinations(FileTypeBitMaskClientStorageTypeModifier) ]

\* The file type integer that holds the five sub-fields.
Pack(f) ==
    f.serverFileType + f.serverFileTypeModifier + f.revisionsNumber
        + f.clientFileType + f.clientFileTypeModifier

\* Bits of a file type that no mask covers: 0x1000 and 0x2000000.
StrayBits == { Pow2(12), Pow2(25) }

\* The file types of the generated records.
FileTypes ==
    { Pack(f) : f \in SubFieldChoices }
        \cup { Pack(f) + b : f \in { g \in SubFieldChoices : g.serverFileType \in { 0, 15 } },
                             b \in StrayBits }

\* The db.storage line of //d/p/f revision 1 with the file type ft.
TypedLine(ft) ==
    StorageLine(NameF, << " ", "@", "1", "@", " " >> \o FormatInt(ft, 10) \o TailFields)

\* A run of p4_storage_to_csv on a journal made of one generated record.
InitDecode ==
    /\ tool = "storage_to_csv"
    /\ depotPath = <<>>
    /\ filter = <<>>
    /\ caseSensitive = FALSE
    /\ disk = {}
    /\ journal \in { { TypedLine(ft) } : ft \in FileTypes }
    /\ pc = "open"
    /\ pending = {}
    /\ walkErr = FALSE
    /\ filemap = {}
    /\ registered = {}
    /\ openContainers = {}
    /\ journalOpen = FALSE
    /\ linesRead = 0
    /\ line = <<>>
    /\ lineExit = "none"
    /\ versionedFilePath = <<>>
    /\ fileCount = 0
    /\ missingCount = 0
    /\ csvHeader = FALSE
    /\ rows = <<>>
    /\ stdout = <<>>
    /\ summary = FALSE
    /\ exitStatus = -1

NextDecode ==
    \/ ExportOpen
    \/ ExportLine
    \/ ExportEnd

SpecDecode == InitDecode /\ [][NextDecode]_vars

\* ------------------------------------------------------------------------
\* p4_storage_to_csv on a journal of one record with generated fields
\* ------------------------------------------------------------------------

\* The words of a generated filename.
NameWords == << << "a" >>, << "b" >>, << "c" >>, << "d" >>, << "e" >> >>

\* The depot path //a b ... of n words.
NameOfWords(n) == << "/", "/" >> \o Join(SubSeq(NameWords, 1, n), << " " >>)

\* Two values for each fixed field, no value shared by two fields: revision,
\* file type, ref count, digest, size, server size, compressed checksum, date.
FixedFieldChoices ==
    { << "@", "1", "@" >>, << "@", "2", "@" >> } \X { << "1" >>, << "2" >> }
        \X { << "3" >>, << "4" >> } \X { << "A" >>, << "B" >> }
        \X { << "5" >>, << "6" >> } \X { << "7" >>, << "8" >> }
        \X { << "X" >>, << "Y" >> } \X { << "9" >>, << "1", "0" >> }

\* The db.storage line of a filename and eight fixed fields, with or without
\* the space that ends a journal line.
FieldsLine(name, fields, trailing) ==
    StorageLine(name, << " " >> \o Join(fields, << " " >>))
        \o (IF trailing THEN << " " >> ELSE <<>>)

FieldsLines ==
    { FieldsLine(NameOfWords(n), f, t) :
        n \in 1..MaxNameWords, f \in FixedFieldChoices, t \in BOOLEAN }

\* A run of p4_storage_to_csv on a journal made of one generated record.
InitFields ==
    /\ tool = "storage_to_csv"
    /\ depotPath = <<>>
    /\ filter = <<>>
    /\ caseSensitive = FALSE
    /\ disk = {}
    /\ journal \in { { ln } : ln \in FieldsLines }
    /\ pc = "open"
    /\ pending = {}
    /\ walkErr = FALSE
    /\ filemap = {}
    /\ registered = {}
    /\ openContainers = {}
    /\ journalOpen = FALSE
    /\ linesRead = 0
    /\ line = <<>>
    /\ lineExit = "none"
    /\ versionedFilePath = <<>>
    /\ fileCount = 0
    /\ missingCount = 0
    /\ csvHeader = FALSE
    /\ rows = <<>>
    /\ stdout = <<>>
    /\ summary = FALSE
    /\ exitStatus = -1

NextFields ==
    \/ ExportOpen
    \/ ExportLine
    \/ ExportEnd

SpecFields == InitFields /\ [][NextFields]_vars

\* ------------------------------------------------------------------------
\* listVersionedFiles for several spellings of the depot root argument
\* ------------------------------------------------------------------------

\* Spellings of flag.Arg(1) that denote the directory /r.
RootSpellings ==
    { << "/", "r" >>,
      << "/", "r", "/" >>,
      << "/", "r", "/", "/" >>,
      << "/", "r", "/", "." >> }

\* A run of p4_find_missing_files on the readable tree, with and without the
\* filter //d/p, for each spelling of the root.
InitRoots ==
    /\ tool = "find_missing"
    /\ depotPath \in RootSpellings
    /\ filter \in { FilterNone, FilterP }
    /\ caseSensitive \in BOOLEAN
    /\ disk = DiskReadable
    /\ journal = JournalLines
    /\ pc = "main"
    /\ pending = {}
    /\ walkErr = FALSE
    /\ filemap = {}
    /\ registered = {}
    /\ openContainers = {}
    /\ journalOpen = FALSE
    /\ linesRead = 0
    /\ line = <<>>
    /\ lineExit = "none"
    /\ versionedFilePath = <<>>
    /\ fileCount = 0
    /\ missingCount = 0
    /\ csvHeader = FALSE
    /\ rows = <<>>
    /\ stdout = <<>>
    /\ summary = FALSE
    /\ exitStatus = -1

\* The run up to the return of listVersionedFiles.
NextRoots ==
    \/ WalkBegin
    \/ WalkCallback
    \/ WalkEnd

SpecRoots == InitRoots /\ [][NextRoots]_vars

\* ------------------------------------------------------------------------
\* Properties
\* ------------------------------------------------------------------------

\* The tokens of a line, and the line being a db.storage record line.
Tokens(ln) == Split(ln, " ")

\* The key //depot/a file.txt,d/1.
AFileKey == NameAFile \o << ",", "d", "/", "1" >>

\* A finished verification run whose journal was the single line LineC1 and
\* whose index holds //depot/a file.txt,d/1.
EndToEndScenario ==
    /\ tool = "find_missing"
    /\ pc = "exit" /\ exitStatus = 0 /\ summary
    /\ linesRead = 1 /\ line = LineC1
    /\ AFileKey \in filemap

\* C1 as stated: on the journal line `@pv@ 3 @db.storage@ @//depot/a file.txt@ #1
\* 0 1 ABC123 100 100 XYZ 1610000000` with //depot/a file.txt,d/1 in the index,
\* verification ends with 1 record processed and 0 missing.
C1_EndToEndOneProcessed == EndToEndScenario => (fileCount = 1 /\ missingCount = 0)

\* C1 as amended: on that journal and index, verification ends with 0 records
\* processed and 0 missing.  The line has 13 tokens, so one token is taken as
\* the filename, `file.txt@` as the revision and `#1` as the file type, which
\* is no integer: the record is skipped.
C1_EndToEndSkipped == EndToEndScenario => (fileCount = 0 /\ missingCount = 0)

C1_Witness == EndToEndScenario

\* The filename written between the @ delimiters of an input line.
OriginalName(ln) ==
    CASE ln \in { LineF, LineTwelve } -> NameF
      [] ln \in { LineSpace } -> NameAB
      [] ln \in { LineC1 } -> NameAFile
      [] ln \in { LineThreeSpaces, LineThreeSpacesT } -> NameABCD

\* The current iteration produced a record with this filename: export mode
\* wrote a row whose first field it is, verification mode built a path from it.
RecordHasFilename(name) ==
    IF tool = "storage_to_csv"
    THEN lineExit = "row" /\ Len(rows) > 0 /\ rows[Len(rows)][1] = name
    ELSE /\ lineExit \in { "present", "missing" }
         /\ \/ HasPrefix(versionedFilePath, name \o RCSRevisionDir)
            \/ HasPrefix(versionedFilePath, name \o BinaryRevisionDir)

\* The record of the line is not dropped by the -filter prefix.
AdmittedByFilter(name) == Len(filter) = 0 \/ HasPrefix(name, filter)

\* The join of tokens 3 through 3+extra (0-based, both ends included), without
\* the @ delimiters.
JoinThroughExtra(ln) ==
    Trim(Join(SubSeq(Tokens(ln), 4, 4 + (Len(Tokens(ln)) - 12)), << " " >>), "@")

\* The join of the `extra` tokens 3 through 2+extra, without the @ delimiters.
JoinOfExtraTokens(ln) ==
    Trim(Join(SubSeq(Tokens(ln), 4, 3 + (Len(Tokens(ln)) - 12)), << " " >>), "@")

\* C2 as stated: a db.storage line with N = 0, 1 or 3 spaces in the filename
\* (12 + N tokens) gives a record with the original filename, which is the join
\* of tokens 3 through 3+extra.
C2_ReassemblyThroughExtra ==
    \A ln \in { LineTwelve, LineC1, LineThreeSpaces } :
        (linesRead > 0 /\ line = ln /\ AdmittedByFilter(OriginalName(ln)))
            => /\ Len(Tokens(ln)) - 12 \in { 0, 1, 3 }
               /\ JoinThroughExtra(ln) = OriginalName(ln)
               /\ RecordHasFilename(OriginalName(ln))

\* C2 as amended: a db.storage line that ends with the space that closes a
\* journal line (13 + N tokens, the last one empty) and has N = 0, 1 or 3 spaces
\* in the filename gives a record with the original filename, which is the join
\* of the `extra` tokens 3 through 2+extra, extra = tokenCount - 12.
C2_ReassemblyOfExtraTokens ==
    \A ln \in { LineF, LineSpace, LineThreeSpacesT } :
        (linesRead > 0 /\ line = ln /\ AdmittedByFilter(OriginalName(ln)))
            => /\ Len(Tokens(ln)) - 13 \in { 0, 1, 3 }
               /\ Tokens(ln)[Len(Tokens(ln))] = <<>>
               /\ JoinOfExtraTokens(ln) = OriginalName(ln)
               /\ RecordHasFilename(OriginalName(ln))

C2_Witness ==
    /\ tool = "storage_to_csv"
    /\ line = LineThreeSpacesT
    /\ lineExit = "row"
    /\ rows[Len(rows)][1] = NameABCD

\* A line that passes the structural pre-filters with fewer than 12 tokens.
TooFewTokens(ln) == PassesPreFilters(Tokens(ln)) /\ Len(Tokens(ln)) < 12

\* This step is one iteration of a scan loop.
ScanStep == linesRead' = linesRead + 1

\* C3: a line that passes the pre-filters with fewer than 12 tokens is skipped:
\* no row, no counter change, no abort, and the scan goes on.
C3_ShortLineSkipped ==
    [][(ScanStep /\ TooFewTokens(line'))
            => /\ pc' = "scan" /\ exitStatus' = -1 /\ journalOpen'
               /\ fileCount' = fileCount /\ missingCount' = missingCount
               /\ rows' = rows]_vars

\* The versioned-file locations that exist below the depot root: what a
\* complete scan of every readable file of the tree yields.
LocationsOnDisk ==
    UNION { SeqToSet(CallbackValues(e, depotPath)) :
                e \in { x \in disk : ~x.isDir /\ x.openable } }

\* The index key of a value under the run's case-sensitivity flag.
KeyOf(v) == IF caseSensitive THEN v ELSE ToLower(v)

\* The expected file of the current record, or its .gz variant, exists on disk.
ExpectedFileOnDisk ==
    \E v \in LocationsOnDisk :
        KeyOf(v) \in { KeyOf(versionedFilePath), KeyOf(versionedFilePath \o GzSuffix) }

\* C4: with a prefix filter set (and the walk of the filtered tree completed
\* without error), a record that passes the filter and whose expected versioned
\* file exists on disk under the root directory is reported present.
C4_FilteredRecordPresent ==
    ( /\ tool = "find_missing"
      /\ Len(filter) > 0 /\ ~walkErr
      /\ lineExit \in { "present", "missing" }
      /\ ExpectedFileOnDisk )
        => lineExit = "present"

\* C5: when the filesystem root cannot be walked at all, the verification run
\* aborts: the journal is never opened or read and the run does not exit with
\* the status of a completed run.
C5_UnwalkableRootAborts ==
    (tool = "find_missing" /\ ~RootWalkable(disk, RootPath(depotPath, filter)))
        => (~journalOpen /\ linesRead = 0 /\ exitStatus # 0)

\* C6: after index building, every file the walker enumerates other than an
\* unopenable RCS container is registered in the index.
C6_OnlyContainerSkipped ==
    (tool = "find_missing" /\ pc \notin { "main", "walk" })
        => \A e \in WalkEntries(disk, RootPath(depotPath, filter)) :
               (~e.isDir /\ ~CallbackFails(e, depotPath))
                   => \A v \in SeqToSet(CallbackValues(e, depotPath)) : KeyOf(v) \in filemap

\* Well-formed db.storage lines in which one numeric field is the token `x`.
BadNumericLines ==
    { LineBadType, LineBadRef, LineBadSize, LineBadServerSize, LineBadDate }

\* The iteration skipped its line: nothing counted, nothing written, the scan goes on.
Skipped ==
    /\ pc' = "scan" /\ exitStatus' = -1
    /\ fileCount' = fileCount /\ missingCount' = missingCount
    /\ rows' = rows

C8_ExpectedPath ==
    (tool = "find_missing" /\ lineExit \in { "present", "missing" })
        => LET parts == Tokens(line)
               rev   == Field(parts, 3)
               ft    == Atoi(Field(parts, 4)).val
           IN  versionedFilePath =
                    Filename(parts)
                        \o (IF ft % 16 = 0 THEN << ",", "v", "/" >> ELSE << ",", "d", "/" >>)
                        \o SubSeq(rev, 2, Len(rev) - 1)

C8_Witness ==
    /\ tool = "find_missing"
    /\ line = LineSpace
    /\ lineExit \in { "present", "missing" }
    /\ versionedFilePath = NameAB \o << ",", "v", "/", "1" >>

\* C9: a processed record is counted missing exactly when neither its expected
\* path nor that path with .gz appended is in the index; a line that is not
\* processed is not counted missing.
C9_MissingIffNeitherKey ==
    [][(tool = "find_missing" /\ ScanStep)
            => IF fileCount' = fileCount + 1
               THEN /\ missingCount' \in { missingCount, missingCount + 1 }
                    /\ (missingCount' = missingCount + 1)
                         <=> /\ KeyOf(versionedFilePath') \notin filemap
                             /\ KeyOf(versionedFilePath' \o GzSuffix) \notin filemap
               ELSE fileCount' = fileCount /\ missingCount' = missingCount]_vars

C9_Witness ==
    /\ tool = "find_missing"
    /\ linesRead = 1 /\ line = LineG
    /\ fileCount = 1 /\ missingCount = 0
    /\ KeyOf(versionedFilePath) \notin filemap
    /\ KeyOf(versionedFilePath \o GzSuffix) \in filemap

\* Two strings are equal up to the case of their letters.
SameIgnoringCase(a, b) ==
    /\ Len(a) = Len(b)
    /\ \A i \in 1..Len(a) :
        \/ a[i] = b[i]
        \/ \E k \in DOMAIN UpperLetters : { a[i], b[i] } = { UpperLetters[k], LowerLetters[k] }

\* //d/p/K, the spelling on disk of the file the journal calls //d/p/k.
NameDiskK == << "/", "/", "d", "/", "p", "/", "K" >>

\* Paths looked up in the index.
Probes ==
    { n \o << ",", "d", "/", "1" >> : n \in { NameK, NameDiskK, NameF, NameUpperF, NameM } }
        \cup { n \o << ",", "v", "/", "1", ".", "1" >> : n \in { NameH, NameUpperF } }

\* C10: with case-sensitivity off a lookup succeeds exactly when some registered
\* path equals the looked-up path ignoring letter case; with it on, exactly when
\* the identical string was registered.
C10_LookupMatchesRegistration ==
    \A v \in Probes :
        pathExistsOnDisk(filemap, v, caseSensitive)
            <=> \E r \in registered :
                    IF caseSensitive THEN r = v ELSE SameIgnoringCase(r, v)

C10_Witness ==
    /\ ~caseSensitive
    /\ NameDiskK \o << ",", "d", "/", "1" >> \in registered
    /\ NameK \o << ",", "d", "/", "1" >> \notin registered
    /\ pathExistsOnDisk(filemap, NameK \o << ",", "d", "/", "1" >>, caseSensitive)

\* The integer a field of a CSV row denotes to its reader: a decimal number.
Denotes(field) == Atoi(field)

\* C11: in export mode the ref count, size, server size and date of an emitted
\* row denote the same integer as the journal token of the record, and the
\* digest and the compressed checksum are the journal tokens themselves.
C11_ScalarFieldsCarried ==
    (tool = "storage_to_csv" /\ lineExit = "row")
        => LET parts == Tokens(line)
               row   == rows[Len(rows)]
           IN  /\ Denotes(row[9]) = Denotes(Field(parts, 5))
               /\ row[10] = Field(parts, 6)
               /\ Denotes(row[11]) = Denotes(Field(parts, 7))
               /\ Denotes(row[12]) = Denotes(Field(parts, 8))
               /\ row[13] = Field(parts, 9)
               /\ Denotes(row[14]) = Denotes(Field(parts, 10))

\* The line is a db.storage record for export mode: the scanner turns it into
\* a record (a line that fails a pre-filter or a conversion is no record).
ExportRecord(ln) == ExportIteration(ln).exit = "row"

\* C12: export mode emits one row per db.storage record of the journal, in
\* journal order: every line read appends the row of its record (and nothing
\* when it is no record) after the rows of the lines before it, the scan goes
\* on to the rest of the journal, and when the process ends the rows written
\* so far are on standard output, after the header.
C12_OneRowPerRecordInOrder ==
    [][tool = "storage_to_csv"
            => /\ ScanStep
                    => /\ rows' = IF ExportRecord(line')
                                  THEN Append(rows, ExportIteration(line').row)
                                  ELSE rows
                       /\ pc' = "scan"
               /\ (pc' = "exit" /\ csvHeader')
                    => stdout' = << CsvHeaderRow >> \o rows']_vars

\* The lines of the one RCS container of the tree.
ContainerLinesOnDisk == (CHOOSE e \in disk : e.path = ContainerPath).content

\* The normalized path of the container: //d/p/h,v.
ContainerKey == NameH \o RCSSuffix

\* C13: a container with fewer than 4 lines yields no registered revision,
\* whatever its lines are, and no error.
C13_ShortContainerYieldsNothing ==
    (pc = "walked" /\ Len(ContainerLinesOnDisk) < 4)
        => (registered = {} /\ filemap = {} /\ ~walkErr)

\* The file type written in a line.
FileTypeOfLine(ln) == ParseUint(Field(Tokens(ln), 4)).val

\* The sub-field values of the round trip: a named server storage type with
\* every combination of the bits of the other four sub-fields.
RoundTripChoices == { f \in SubFieldChoices : f.serverFileType \in ServerStorageTypes }

\* Decoding ft gives back the sub-fields ft was packed from, and the row shows them.
RoundTrip(ft, row) ==
    \A f \in RoundTripChoices :
        Pack(f) = ft
            => /\ DecodeFileType(ft) = f
               /\ row[4] = FormatInt(f.serverFileType, 16)
               /\ row[5] = FormatInt(f.serverFileTypeModifier, 16)
               /\ row[6] = FormatInt(f.revisionsNumber, 16)
               /\ row[7] = FormatInt(f.clientFileType, 16)
               /\ row[8] = FormatInt(f.clientFileTypeModifier, 16)

\* C14: for every server storage type 0..8 combined with every combination of
\* modifier, retention, client type and client modifier bits, decoding the
\* file type packed from the five sub-fields gives back the same five values.
C14_RoundTripDecode ==
    (tool = "storage_to_csv" /\ lineExit = "row")
        => RoundTrip(FileTypeOfLine(line), rows[Len(rows)])

C14_Witness ==
    /\ tool = "storage_to_csv"
    /\ lineExit = "row"
    /\ \E f \in RoundTripChoices :
        /\ f.serverFileType = 8
        /\ f.clientFileType = FileTypeBitMaskClientStorageType
        /\ f.clientFileTypeModifier = FileTypeBitMaskClientStorageTypeModifier
        /\ Pack(f) = FileTypeOfLine(line)
        /\ DecodeFileType(Pack(f)) = f
    /\ rows[Len(rows)][7] = << "1", "0", "d", "0", "0", "0", "0" >>
    /\ rows[Len(rows)][8] = << "7", "2", "0", "0", "0", "0" >>

\* ft AND mask, bit by bit.
MaskedBits(ft, mask) == SumOf({ b \in MaskBits(mask) : (ft \div b) % 2 = 1 })

\* The row shows, for each of the five masks, the file type AND the mask.
CarriesMaskedValues(ft, row) ==
    /\ Len(row) = 14
    /\ row[3] = FormatInt(ft, 16)
    /\ row[4] = FormatInt(MaskedBits(ft, FileTypeBitMaskServerStorageType), 16)
    /\ row[5] = FormatInt(MaskedBits(ft, FileTypeBitMaskServerStorageTypeModifier), 16)
    /\ row[6] = FormatInt(MaskedBits(ft, FileTypeBitMaskRevisionsNumber), 16)
    /\ row[7] = FormatInt(MaskedBits(ft, FileTypeBitMaskClientStorageType), 16)
    /\ row[8] = FormatInt(MaskedBits(ft, FileTypeBitMaskClientStorageTypeModifier), 16)

\* C15: decoding never fails: every record, whatever its file type (an unnamed
\* server storage type or bits under no mask included), gets its row, and each
\* of the five sub-fields of the row is the file type AND that sub-field's mask.
C15_DecodeTotal ==
    (tool = "storage_to_csv" /\ linesRead > 0)
        => /\ lineExit = "row"
           /\ Len(rows) = linesRead
           /\ CarriesMaskedValues(FileTypeOfLine(line), rows[Len(rows)])

C15_Witness ==
    /\ tool = "storage_to_csv"
    /\ lineExit = "row"
    /\ FileTypeOfLine(line) = 15 + Pow2(25)
    /\ rows[Len(rows)][3] = << "2", "0", "0", "0", "0", "0", "f" >>
    /\ rows[Len(rows)][4] = << "f" >>
    /\ rows[Len(rows)][7] = << "0" >>

\* The current iteration produced a record: export mode wrote its row,
\* verification mode built its expected path and looked it up.
RecordProduced ==
    \/ tool = "storage_to_csv" /\ lineExit = "row"
    \/ tool = "find_missing" /\ lineExit \in { "present", "missing" }

\* The DepotFile of the record of the current iteration: the first column of
\* its row, or the expected path without `,v/rev` or `,d/rev` at its end.
DepotFile ==
    IF tool = "storage_to_csv" THEN rows[Len(rows)][1]
    ELSE SubSeq(versionedFilePath, 1,
                Len(versionedFilePath) - Len(BinaryRevisionDir)
                    - Len(StripRevision(Field(Tokens(line), 3))))

\* The name has no @ at either end.
NoSurroundingMarkers(name) ==
    Len(name) = 0 \/ (name[1] # "@" /\ name[Len(name)] # "@")

\* C16 as stated: every record the scanner produces has a DepotFile that begins
\* with // and has no surrounding @ delimiter.
C16_DepotFileAlwaysPrefixed ==
    RecordProduced
        => (HasPrefix(DepotFile, << "/", "/" >>) /\ NoSurroundingMarkers(DepotFile))

\* C16 as amended: every record the scanner produces has a DepotFile with no
\* surrounding @ delimiter; the DepotFile begins with // exactly when the line
\* has a filename token (token 3) that begins with // after its leading @
\* delimiters: the scanner copies the field, it neither checks nor adds the //.
C16_DepotFilePrefixedAsInLine ==
    RecordProduced
        => /\ NoSurroundingMarkers(DepotFile)
           /\ HasPrefix(DepotFile, << "/", "/" >>)
                <=> /\ Len(Tokens(line)) > 12
                    /\ HasPrefix(TrimLeft(Tokens(line)[4], "@"), << "/", "/" >>)

C16_Witness ==
    /\ RecordProduced
    /\ line = LineBare
    /\ DepotFile = NameBare

\* This step is the failure of os.OpenFile on the journal.
JournalOpenFails == pc \in { "walked", "open" } /\ ~journalOpen'

\* This step is the end of the journal: the scanner has no further line.
JournalEnds == pc = "scan" /\ linesRead' = linesRead

\* C17: when the journal cannot be opened the run ends at once with a non-zero
\* exit status, no record processed, no row written and no summary; when the
\* scanner reaches the end of an opened journal the run ends with status 0.
C17_OpenFailureIsFatal ==
    [][/\ JournalOpenFails
            => /\ pc' = "exit" /\ exitStatus' \notin { -1, 0 }
               /\ ~summary'
               /\ linesRead' = 0 /\ fileCount' = 0 /\ missingCount' = 0
               /\ rows' = <<>> /\ stdout' = <<>>
       /\ JournalEnds
            => (pc' = "exit" /\ exitStatus' = 0 /\ summary')]_vars

C17_Witness ==
    /\ tool = "find_missing"
    /\ pc = "exit" /\ exitStatus = 1
    /\ filemap # {}
    /\ ~journalOpen /\ linesRead = 0 /\ ~summary

\* The index holds every versioned file below the walked root that can be read.
IndexComplete(fm) ==
    \A e \in WalkEntries(disk, RootPath(depotPath, filter)) :
        (~e.isDir /\ ~CallbackFails(e, depotPath))
            => \A v \in SeqToSet(CallbackValues(e, depotPath)) : KeyOf(v) \in fm

\* C18: the index is complete and frozen before verification begins: a
\* registration happens only before the journal is opened, when the scan of the
\* journal starts every file under the (filtered) root is in the index, and no
\* step of the scan changes the index.
C18_IndexCompleteAndFrozen ==
    [][tool = "find_missing"
            => /\ (filemap' # filemap \/ registered' # registered)
                    => (pc = "walk" /\ ~journalOpen /\ linesRead = 0)
               /\ (pc = "walked" /\ pc' = "scan") => IndexComplete(filemap')
               /\ pc = "scan" => (filemap' = filemap /\ registered' = registered)]_vars

\* The line is a record verification mode accepts: a db.storage line of at
\* least 12 tokens that passes the -filter prefix and whose file type is an integer.
AcceptedRecord(ln) ==
    /\ PassesPreFilters(Tokens(ln))
    /\ Len(Tokens(ln)) >= DbStorageJournalFieldCount
    /\ Len(filter) = 0 \/ HasPrefix(Filename(Tokens(ln)), filter)
    /\ Atoi(Field(Tokens(ln), 4)).ok

\* C19: verification mode does not abort on a miss and counts every accepted
\* record of the journal: a record reported missing leaves the scan running,
\* every line read adds one to the processed count exactly when it is an
\* accepted record, the scan goes on to the next line after every line, and
\* the end of the journal reports the count reached.
C19_MissDoesNotAbort ==
    [][tool = "find_missing"
            => /\ ScanStep
                    => /\ lineExit' = "missing" => (pc' = "scan" /\ exitStatus' = -1)
                       /\ fileCount' = fileCount + (IF AcceptedRecord(line') THEN 1 ELSE 0)
                       /\ pc' = "scan"
               /\ JournalEnds => (summary' /\ fileCount' = fileCount)]_vars

\* The lines of the container that are `text`, follow `log` then `@@`, and have
\* at least three lines before them.
MatchedTextLines(lines) ==
    { i \in 4..Len(lines) :
        /\ lines[i] = << "t", "e", "x", "t" >>
        /\ lines[i - 1] = << "@", "@" >>
        /\ lines[i - 2] = << "l", "o", "g" >> }

\* The values to register for them: container path, `/`, the line before `log`.
ExpectedRevisions(lines) ==
    { ContainerKey \o << "/" >> \o lines[i - 3] : i \in MatchedTextLines(lines) }

\* What a `text` line with fewer than three lines before it can register: the
\* container path with an empty revision (the case of C13).
EarlyRevision == ContainerKey \o << "/" >>

\* C20: when the container has been scanned, the revisions registered for
\* `text` lines that have at least three lines before them are exactly those
\* of the lines that follow `log` then `@@`, each under the key
\* <container path>/<line immediately before log>; the index holds their keys.
C20_SentinelScan ==
    pc = "walked"
        => /\ registered \ { EarlyRevision } = ExpectedRevisions(ContainerLinesOnDisk)
           /\ filemap = { KeyOf(v) : v \in registered }
           /\ ~walkErr

C20_Witness ==
    /\ pc = "walked"
    /\ ContainerLinesOnDisk =
            << << "t", "e", "x", "t" >>, << "1", ".", "1" >>, << "l", "o", "g" >>,
               << "@", "@" >>, << "t", "e", "x", "t" >> >>
    /\ registered = { NameH \o << ",", "v", "/", "1", ".", "1" >> }

\* The revision token of a line, and the token without its first and last
\* character (nothing is left of a token of fewer than two characters).
RevisionToken(ln) == Field(Tokens(ln), 3)

Stripped(token) == SubSeq(token, 2, Len(token) - 1)

\* C21: for every revision token, an empty or one-character token included,
\* verification mode builds the expected path from the token without its first
\* and last character and goes on: the record is looked up and counted, no
\* error is raised and the run is not aborted.
C21_RevisionStrippedWithoutError ==
    [][(tool = "find_missing" /\ ScanStep /\ AcceptedRecord(line'))
            => /\ pc' = "scan" /\ exitStatus' = -1 /\ journalOpen'
               /\ fileCount' = fileCount + 1
               /\ \/ versionedFilePath' =
                        Filename(Tokens(line')) \o RCSRevisionDir \o Stripped(RevisionToken(line'))
                  \/ versionedFilePath' =
                        Filename(Tokens(line')) \o BinaryRevisionDir \o Stripped(RevisionToken(line'))]_vars

\* The line fails a structural pre-filter: fewer than 4 tokens, a first token
\* other than @pv@, or a third token other than @db.storage@.
FailsStructure(ln) ==
    \/ Len(Tokens(ln)) < 4
    \/ Tokens(ln)[1] # << "@", "p", "v", "@" >>
    \/ Tokens(ln)[3] # << "@", "d", "b", ".", "s", "t", "o", "r", "a", "g", "e", "@" >>

\* C22: in both tools a line that fails a structural pre-filter leaves the
\* processed and missing counters, the index and the emitted output unchanged
\* and is no error: the scan goes on with the next line.
C22_PreFilteredLineHasNoEffect ==
    [][(ScanStep /\ FailsStructure(line'))
            => /\ fileCount' = fileCount /\ missingCount' = missingCount
               /\ filemap' = filemap /\ registered' = registered
               /\ rows' = rows /\ stdout' = stdout /\ csvHeader' = csvHeader
               /\ pc' = "scan" /\ exitStatus' = -1 /\ journalOpen']_vars

C22_Witness ==
    /\ tool = "find_missing"
    /\ pc = "scan"
    /\ linesRead = 2 /\ line = LineUser /\ lineExit = "prefilter"
    /\ fileCount = 1 /\ missingCount = 1

\* The token of a line at a 0-based position, and extra = tokenCount - 12.
TokenAt(ln, i) == Tokens(ln)[i + 1]

Extra(ln) == Len(Tokens(ln)) - 12

\* The positions of the tokens the filename is joined from (`extra` tokens
\* from the file marker on), and the position a fixed field is read from.
FilenamePositions(ln) ==
    DbStorageFieldFileMarker .. (DbStorageFieldFileMarker + Extra(ln) - 1)

NominalOffsets ==
    { DbStorageFieldRev, DbStorageFieldType, DbStorageFieldRefCount, DbStorageFieldDigest,
      DbStorageFieldSize, DbStorageFieldServerSize, DbStorageFieldCompCksum, DbStorageFieldDate }

FieldPositions(ln) == { o + Extra(ln) : o \in NominalOffsets }

\* The row shows, in each column, the token at the nominal offset of its field
\* plus extra, and in its first column the join of the filename tokens.
FieldsAtOffsets(ln, row) ==
    /\ row[1] = Trim(Join([j \in 1..Extra(ln) |-> TokenAt(ln, DbStorageFieldFileMarker + j - 1)],
                          << " " >>), "@")
    /\ row[2] = TokenAt(ln, DbStorageFieldRev + Extra(ln))
    /\ row[3] = FormatInt(DecimalVal(TokenAt(ln, DbStorageFieldType + Extra(ln))), 16)
    /\ row[9] = FormatInt(DecimalVal(TokenAt(ln, DbStorageFieldRefCount + Extra(ln))), 16)
    /\ row[10] = TokenAt(ln, DbStorageFieldDigest + Extra(ln))
    /\ row[11] = TokenAt(ln, DbStorageFieldSize + Extra(ln))
    /\ row[12] = TokenAt(ln, DbStorageFieldServerSize + Extra(ln))
    /\ row[13] = TokenAt(ln, DbStorageFieldCompCksum + Extra(ln))
    /\ row[14] = TokenAt(ln, DbStorageFieldDate + Extra(ln))

\* No token is used twice.
NoTokenUsedTwice(ln) ==
    /\ FilenamePositions(ln) \cap FieldPositions(ln) = {}
    /\ Cardinality(FieldPositions(ln)) = Cardinality(NominalOffsets)

\* The line ends with the space that ends a journal line: its last token is empty.
EndsWithSpace(ln) == Tokens(ln)[Len(Tokens(ln))] = <<>>

\* The current iteration read a generated record as the journal writes it.
RecordRead == tool = "storage_to_csv" /\ linesRead > 0 /\ EndsWithSpace(line)

\* C23 as stated: for a record with extra = k every fixed field is read from
\* the token at its nominal offset plus k, and the filename tokens and the
\* fixed-field tokens together cover tokens 3 through the last token, no token
\* used twice.
C23_TokensCoveredThroughLast ==
    RecordRead
        => /\ lineExit = "row"
           /\ FieldsAtOffsets(line, rows[Len(rows)])
           /\ NoTokenUsedTwice(line)
           /\ FilenamePositions(line) \cup FieldPositions(line) = 3..(Len(Tokens(line)) - 1)

\* C23 as amended: for a record with extra = k = tokenCount - 12 every fixed
\* field is read from the token at its DbStorageField* offset (3 for the
\* revision to 10 for the date) plus k, the filename is joined from the k
\* tokens 3 to 2+k, and these tokens together cover tokens 3 through the last
\* but one, no token used twice; the last token is never read.
C23_TokensCoveredThroughLastButOne ==
    RecordRead
        => /\ lineExit = "row"
           /\ FieldsAtOffsets(line, rows[Len(rows)])
           /\ NoTokenUsedTwice(line)
           /\ FilenamePositions(line) \cup FieldPositions(line) = 3..(Len(Tokens(line)) - 2)

C23_Witness ==
    /\ tool = "storage_to_csv"
    /\ lineExit = "row"
    /\ Extra(line) = 2
    /\ line = FieldsLine(NameOfWords(2), << << "@", "2", "@" >>, << "1" >>, << "4" >>, << "B" >>,
                                           << "5" >>, << "8" >>, << "Y" >>, << "1", "0" >> >>, TRUE)
    /\ rows[Len(rows)] =
            << << "/", "/", "a", " ", "b" >>, << "@", "2", "@" >>, << "1" >>,
               << "1" >>, << "0" >>, << "0" >>, << "0" >>, << "0" >>,
               << "4" >>, << "B" >>, << "5" >>, << "8" >>, << "Y" >>, << "1", "0" >> >>

\* Verification mode without -filter counts the line as processed, whatever
\* the index holds.
CountedByVerification(ln) ==
    VerifyIteration(ln, {}, FilterNone, TRUE).exit \in { "present", "missing" }

\* C24: both tools accept the same records: export mode emits a row for a
\* journal line exactly when verification mode with no filter counts the line
\* as processed.
C24_SameRecordsAccepted ==
    linesRead > 0
        => /\ tool = "storage_to_csv"
                => (lineExit = "row" <=> CountedByVerification(line))
           /\ (tool = "find_missing" /\ filter = FilterNone)
                => (lineExit \in { "present", "missing" } <=> ExportRecord(line))

RECURSIVE WalkResults(_, _, _, _, _)
\* The indexes listVersionedFiles can return for the entries `todo` still to
\* be handed to the callback, one for every order the walker may yield them
\* in: a directory registers nothing, an unopenable container ends the walk,
\* any other file registers its values.
WalkResults(all, todo, fm, depot, cs) ==
    IF todo = {} THEN { fm }
    ELSE UNION { IF e.isDir THEN WalkResults(all, todo \ { e }, fm, depot, cs)
                 ELSE IF CallbackFails(e, depot) THEN { fm }
                 ELSE WalkResults(all, todo \ { e },
                                  RegisterAll(fm, CallbackValues(e, depot), cs), depot, cs) :
                    e \in NextInWalk(all, todo) }

\* The indexes of all enumeration orders of the walked tree of this run.
IndexesOfAllOrders ==
    IF RootWalkable(disk, RootPath(depotPath, filter))
    THEN WalkResults(WalkEntries(disk, RootPath(depotPath, filter)),
                     WalkEntries(disk, RootPath(depotPath, filter)),
                     {}, depotPath, caseSensitive)
    ELSE { {} }

\* C25: the index does not depend on the order in which the walker yields the
\* entries: when listVersionedFiles has returned, the index it built is the
\* index every other enumeration order of the same tree builds (the scan, and
\* with it the processed and missing counts, reads nothing of the walk but
\* this index).
C25_IndexIndependentOfWalkOrder ==
    (tool = "find_missing" /\ pc = "walked")
        => \A fm \in IndexesOfAllOrders : fm = filemap

\* The path of an entry relative to the directory /r, with forward slashes and
\* no slash at either end, after `//`.
RelativeKey(e) == << "/", "/" >> \o SubSeq(e.path, Len(DepotRoot) + 2, Len(e.path))

\* The entries the walker has handed to the callback so far.
Yielded == WalkEntries(disk, RootPath(depotPath, filter)) \ pending

\* The entry is an RCS container: its name ends in ,v.
IsContainer(e) == ~e.isDir /\ HasSuffix(e.path, << ",", "v" >>)

\* C26: with or without a prefix filter and for any spelling of the root
\* argument that denotes the same directory, every non-directory file the
\* walker has yielded is registered under `//` followed by its path relative
\* to the root (a container: under that key, `/` and a revision), nothing else
\* is registered, and no directory is registered.
C26_KeyIsPathRelativeToRoot ==
    (tool = "find_missing" /\ pc \in { "walk", "walked" } /\ ~walkErr)
        => /\ \A e \in Yielded :
                (~e.isDir /\ ~IsContainer(e)) => RelativeKey(e) \in registered
           /\ \A v \in registered :
                \E e \in Yielded :
                    /\ ~e.isDir
                    /\ IF IsContainer(e) THEN HasPrefix(v, RelativeKey(e) \o << "/" >>)
                       ELSE v = RelativeKey(e)
           /\ \A e \in Yielded : e.isDir => RelativeKey(e) \notin registered

\* C27: during the verification scan 0 <= missing <= processed <= lines read;
\* a step adds at most 1 to processed and only when it reads a line, adds to
\* missing only when it adds to processed, and never lowers a counter.
C27_CountersOrdered ==
    [][tool = "find_missing"
            => /\ 0 <= missingCount'
               /\ missingCount' <= fileCount'
               /\ fileCount' <= linesRead'
               /\ fileCount' \in { fileCount, fileCount + 1 }
               /\ missingCount' \in { missingCount, missingCount + 1 }
               /\ fileCount' = fileCount + 1 => ScanStep
               /\ missingCount' = missingCount + 1 => fileCount' = fileCount + 1]_vars

C27_Witness ==
    /\ tool = "find_missing"
    /\ pc = "scan"
    /\ linesRead = 2 /\ fileCount = 2 /\ missingCount = 1
    /\ line = LineM /\ lineExit = "missing"

\* The line with the letters of its depot path (the filename tokens) in lower
\* case: a line that differs from ln in the letter case of the depot path only.
WithLowerCasePath(ln) ==
    Join([i \in 1..Len(Tokens(ln)) |->
            IF i >= 4 /\ i <= 3 + Extra(ln) THEN ToLower(Tokens(ln)[i]) ELSE Tokens(ln)[i]],
         << " " >>)

\* C28: with case-sensitivity off, for every value of the prefix filter, a
\* journal line and the line that differs from it only in the letter case of
\* its depot path have the same effect on the processed and missing counts
\* against the same index.
C28_CountsIndependentOfLetterCase ==
    (tool = "find_missing" /\ ~caseSensitive /\ linesRead > 0)
        => \E other \in { VerifyIteration(WithLowerCasePath(line), filemap, filter, caseSensitive).exit } :
              /\ ReachesFileCount(other) <=> ReachesFileCount(lineExit)
              /\ other = "missing" <=> lineExit = "missing"

\* C29: every file handle a run opens is closed on every exit path of the
\* function that opened it.  The journal handle is open only while the scan
\* loop runs: a skipped line leaves it open for the next line, and the end of
\* input, the failure of the open and a panic on a line all leave the process
\* with the handle closed.  Every callback of the walk returns with the
\* container it opened closed, so at most one container is open at any time.
C29_HandlesClosedOnEveryExit ==
    [][/\ journalOpen' <=> (pc' = "scan")
       /\ pc' = "exit" => (~journalOpen' /\ openContainers' = {})
       /\ (ScanStep /\ lineExit' \in { "prefilter", "filtered", "parse" }) => journalOpen'
       /\ (ScanStep /\ lineExit' = "panic") => (~journalOpen' /\ pc' = "exit")
       /\ pc = "walk" => openContainers' = {}
       /\ Cardinality(openContainers') <= 1]_vars

C29_Witness ==
    /\ tool = "find_missing"
    /\ pc = "exit" /\ exitStatus = 2
    /\ linesRead = 2 /\ lineExit = "panic" /\ fileCount = 1
    /\ NameH \o << ",", "v", "/", "1", ".", "1" >> \in registered
    /\ ~journalOpen /\ openContainers = {}

RECURSIVE HexVal(_)
\* The number a hexadecimal column of a row denotes.
HexVal(s) ==
    IF Len(s) = 0 THEN 0
    ELSE HexVal(SubSeq(s, 1, Len(s) - 1)) * 16
            + (CHOOSE i \in DOMAIN HexDigits : HexDigits[i] = s[Len(s)]) - 1

RECURSIVE BitOr(_, _)
\* x | y for non-negative x and y.
BitOr(x, y) ==
    IF x = 0 THEN y
    ELSE IF y = 0 THEN x
    ELSE (IF x % 2 = 1 \/ y % 2 = 1 THEN 1 ELSE 0) + 2 * BitOr(x \div 2, y \div 2)

\* The five decode masks, and the number 0x17F0FFF.
DecodeMasks ==
    << FileTypeBitMaskServerStorageType, FileTypeBitMaskServerStorageTypeModifier,
       FileTypeBitMaskRevisionsNumber, FileTypeBitMaskClientStorageType,
       FileTypeBitMaskClientStorageTypeModifier >>

UnionOfMasks == HexVal(<< "1", "7", "f", "0", "f", "f", "f" >>)

\* The five decoded sub-fields a row shows (columns 4 to 8, hexadecimal).
SubFieldsOfRow(row) == [i \in 1..5 |-> HexVal(row[3 + i])]

\* No bit is set in two of the five numbers.
PairwiseDisjoint(f) == \A i, j \in 1..5 : i # j => BitAnd(f[i], f[j]) = 0

\* C30: the five decode masks are pairwise disjoint and their union is
\* 0x17F0FFF; no bit of a file type shows in more than one decoded sub-field
\* of its row, and a file type whose set bits lie within the union of the
\* masks is the bitwise OR of its five decoded sub-fields.
C30_MasksPartitionFileType ==
    (tool = "storage_to_csv" /\ lineExit = "row")
        => /\ PairwiseDisjoint(DecodeMasks)
           /\ BitOr(DecodeMasks[1], BitOr(DecodeMasks[2], BitOr(DecodeMasks[3],
                    BitOr(DecodeMasks[4], DecodeMasks[5])))) = UnionOfMasks
           /\ \E f \in { SubFieldsOfRow(rows[Len(rows)]) } :
                /\ PairwiseDisjoint(f)
                /\ \A i \in 1..5 : BitAnd(f[i], DecodeMasks[i]) = f[i]
                /\ BitAnd(FileTypeOfLine(line), UnionOfMasks) = FileTypeOfLine(line)
                        => BitOr(f[1], BitOr(f[2], BitOr(f[3], BitOr(f[4], f[5]))))
                                = FileTypeOfLine(line)

C30_Witness ==
    /\ tool = "storage_to_csv"
    /\ lineExit = "row"
    /\ FileTypeOfLine(line) = UnionOfMasks
    /\ rows[Len(rows)][3] = << "1", "7", "f", "0", "f", "f", "f" >>
    /\ SubFieldsOfRow(rows[Len(rows)]) = DecodeMasks

====
